---- MODULE Spec2Model ----
(***************************************************************************)
(* Model of src/src/lib.rs: the CompactSize / Txid / OutPoint / Script /   *)
(* TransactionInput / BitcoinTransaction codec.                            *)
(*                                                                         *)
(* The encoders and decoders are pure functions and are modelled as        *)
(* operators that follow the Rust code statement by statement.  A driver   *)
(* state machine builds a value, calls to_bytes, optionally damages the    *)
(* byte buffer (cut, overwrite, append) and calls from_bytes.              *)
(*                                                                         *)
(* Integers wider than 31 bits are kept as little-endian sequences of      *)
(* 16-bit digits ("limbs"): a u16 has 1 limb, a u32 has 2, a u64 has 4 and *)
(* a usize has 2 or 4 according to the target's pointer width.  All        *)
(* arithmetic on them is done digit by digit with carry, so that it wraps  *)
(* exactly where the machine integer wraps.                                *)
(*                                                                         *)
(* A Rust panic (unwrap on Err, slice index out of range, arithmetic       *)
(* overflow in a build with overflow checks) is the result Panic.          *)
(***************************************************************************)
EXTENDS Integers, Sequences, FiniteSets, TLC

VARIABLES S, val, buf, origin, extra, res, pc, build, text

vars == <<S, val, buf, origin, extra, res, pc, build, text>>

(***************************************************************************)
(* Bounds of the driver.                                                   *)
(***************************************************************************)
\* bytes the driver may append after a buffer
MaxExtra == 2
\* inputs in a generated transaction
MaxInputs == 2
\* length of the long generated script (its length prefix takes 3 bytes)
LongScriptLen == 253

(***************************************************************************)
(* Machine integers.                                                       *)
(***************************************************************************)
Limb == 256 * 256

\* the u64 with the given 16-bit digits, least significant first
U64(a, b, c, d) == <<a, b, c, d>>

\* a small natural number (below 2^31) as an integer of n limbs
FromNat(x, n) == [i \in 1..n |-> IF i = 1 THEN x % Limb
                                 ELSE IF i = 2 THEN x \div Limb ELSE 0]

\* the natural number of an integer whose value is below 2^31
ToNat(a) == IF Len(a) = 1 THEN a[1] ELSE a[1] + Limb * a[2]

\* `x as uN`: truncation or zero extension to n limbs
CastTo(a, n) == [i \in 1..n |-> IF i <= Len(a) THEN a[i] ELSE 0]

RECURSIVE LtW(_, _)
\* a < b for two integers of the same width
LtW(a, b) ==
    IF a = <<>> THEN FALSE
    ELSE LET n == Len(a) IN
         IF a[n] # b[n] THEN a[n] < b[n]
         ELSE LtW(SubSeq(a, 1, n - 1), SubSeq(b, 1, n - 1))

LeW(a, b) == ~LtW(b, a)

RECURSIVE AddCarry(_, _, _)
\* digits of a + b + c followed by the carry out of the top digit
AddCarry(a, b, c) ==
    IF a = <<>> THEN <<c>>
    ELSE LET s == a[1] + b[1] + c IN
         <<s % Limb>> \o AddCarry(Tail(a), Tail(b), s \div Limb)

\* the wrapped sum of two integers of the same width
WrappingAdd(a, b) == SubSeq(AddCarry(a, b, 0), 1, Len(a))

\* whether a + b does not fit the width
AddOverflows(a, b) == AddCarry(a, b, 0)[Len(a) + 1] = 1

RECURSIVE to_le_bytes(_)
\* uN::to_le_bytes
to_le_bytes(a) ==
    IF a = <<>> THEN <<>>
    ELSE <<a[1] % 256, a[1] \div 256>> \o to_le_bytes(Tail(a))

RECURSIVE from_le_bytes(_)
\* uN::from_le_bytes on an array of 2, 4 or 8 bytes
from_le_bytes(b) ==
    IF b = <<>> THEN <<>>
    ELSE <<b[1] + 256 * b[2]>> \o from_le_bytes(SubSeq(b, 3, Len(b)))

\* &bytes[lo..hi] for in-range indices (a Rust range, end exclusive)
Slice(bytes, lo, hi) == SubSeq(bytes, lo + 1, hi)

\* &bytes[lo..]
SliceFrom(bytes, lo) == SubSeq(bytes, lo + 1, Len(bytes))

(***************************************************************************)
(* Results.                                                                *)
(***************************************************************************)
Ok(v, n) == [tag |-> "Ok", value |-> v, consumed |-> n]
Err(e) == [tag |-> "Err", err |-> e]
Panic == [tag |-> "Panic"]
NoRes == [tag |-> "None"]

InsufficientBytes == "InsufficientBytes"
InvalidFormat == "InvalidFormat"

(***************************************************************************)
(* CompactSize                                                             *)
(***************************************************************************)
CompactSize_new(value) == [value |-> value]

\* the literals of the match arms
N252 == U64(252, 0, 0, 0)
N65535 == U64(65535, 0, 0, 0)
N4294967295 == U64(65535, 65535, 0, 0)

CompactSize_to_bytes_offbyone(self) ==
    LET v == self.value IN
    IF LeW(v, U64(253, 0, 0, 0)) THEN <<v[1] % 256>>
    ELSE IF LeW(v, N65535) THEN <<253>> \o to_le_bytes(CastTo(v, 1))
    ELSE IF LeW(v, N4294967295) THEN <<254>> \o to_le_bytes(CastTo(v, 2))
    ELSE <<255>> \o to_le_bytes(v)

CompactSize_to_bytes(self) ==
    LET v == self.value IN
    IF LeW(v, N252) THEN <<v[1] % 256>>
    ELSE IF LeW(v, N65535) THEN <<253>> \o to_le_bytes(CastTo(v, 1))
    ELSE IF LeW(v, N4294967295) THEN <<254>> \o to_le_bytes(CastTo(v, 2))
    ELSE <<255>> \o to_le_bytes(v)

\* the decoder of the other revision: the slice must be exactly the encoding
CompactSize_from_bytes_strict(bytes) ==
    LET len == Len(bytes) IN
    IF len = 0 THEN Err(InsufficientBytes)
    ELSE LET prefix == bytes[1]
             need == IF prefix <= 252 THEN 1 ELSE IF prefix = 253 THEN 3
                     ELSE IF prefix = 254 THEN 5 ELSE 9 IN
         IF len < need THEN Err(InsufficientBytes)
         ELSE IF len # need THEN Err(InvalidFormat)
         ELSE IF prefix <= 252
              THEN Ok(CompactSize_new(CastTo(<<prefix>>, 4)), 1)
              ELSE Ok(CompactSize_new(
                        CastTo(from_le_bytes(Slice(bytes, 1, need)), 4)), need)

CompactSize_from_bytes(bytes) ==
    LET len == Len(bytes) IN
    IF len = 0 THEN Err(InsufficientBytes)
    ELSE LET prefix == bytes[1] IN
         IF prefix <= 252
         THEN Ok(CompactSize_new(CastTo(<<prefix>>, 4)), 1)
         ELSE IF prefix = 253
         THEN IF len < 3 THEN Err(InsufficientBytes)
              ELSE Ok(CompactSize_new(
                        CastTo(from_le_bytes(Slice(bytes, 1, 3)), 4)), 3)
         ELSE IF prefix = 254
         THEN IF len < 5 THEN Err(InsufficientBytes)
              ELSE Ok(CompactSize_new(
                        CastTo(from_le_bytes(Slice(bytes, 1, 5)), 4)), 5)
         ELSE IF len < 9 THEN Err(InsufficientBytes)
              ELSE Ok(CompactSize_new(from_le_bytes(Slice(bytes, 1, 9))), 9)

(***************************************************************************)
(* Build configuration: what the compiler fixes and the source does not.   *)
(*   overflow_checks: `+` on usize panics on overflow (debug profile) or   *)
(*                    wraps (release profile);                             *)
(*   usize_limbs:     width of usize in 16-bit digits (2: 32-bit target,   *)
(*                    4: 64-bit target).                                   *)
(***************************************************************************)
Builds == [overflow_checks : BOOLEAN, usize_limbs : {2, 4}]

(***************************************************************************)
(* Txid and OutPoint                                                       *)
(***************************************************************************)
\* the tuple struct Txid([u8; 32]) is its array
Txid(array) == array

OutPoint_new(txid, vout) == [txid |-> Txid(txid), vout |-> vout]

OutPoint_to_bytes(self) == self.txid \o to_le_bytes(self.vout)

OutPoint_from_bytes(bytes) ==
    IF Len(bytes) < 36 THEN Err(InsufficientBytes)
    ELSE LET txid == Txid(Slice(bytes, 0, 32))
             vout == from_le_bytes(Slice(bytes, 32, 36)) IN
         Ok([txid |-> txid, vout |-> vout], 36)

(***************************************************************************)
(* Script                                                                  *)
(***************************************************************************)
Script_new(bytes) == [bytes |-> bytes]

Script_to_bytes(self) ==
    LET len == Len(self.bytes)
        size == CompactSize_new(FromNat(len, 4))
        prefix == CompactSize_to_bytes(size) IN
    prefix \o self.bytes

\* a decoder that insists on the slice ending with the script
Script_from_bytes_exact(bytes, b) ==
    IF bytes = <<>> THEN Err(InsufficientBytes)
    ELSE LET r == CompactSize_from_bytes(bytes) IN
         IF r.tag # "Ok" THEN r
         ELSE LET w == b.usize_limbs
                  size_consumed == FromNat(r.consumed, w)
                  script_len == CastTo(r.value.value, w)
                  end == WrappingAdd(size_consumed, script_len) IN
              IF AddOverflows(size_consumed, script_len) /\ b.overflow_checks
              THEN Panic
              ELSE IF FromNat(Len(bytes), w) # end
              THEN Err(InsufficientBytes)
              ELSE Ok(Script_new(Slice(bytes, r.consumed, ToNat(end))),
                      ToNat(end))

\* a decoder that reports the script length as the bytes consumed
Script_from_bytes_noprefix(bytes, b) ==
    IF bytes = <<>> THEN Err(InsufficientBytes)
    ELSE LET r == CompactSize_from_bytes(bytes) IN
         IF r.tag # "Ok" THEN r
         ELSE LET w == b.usize_limbs
                  size_consumed == FromNat(r.consumed, w)
                  script_len == CastTo(r.value.value, w)
                  end == WrappingAdd(size_consumed, script_len) IN
              IF AddOverflows(size_consumed, script_len) /\ b.overflow_checks
              THEN Panic
              ELSE IF LtW(FromNat(Len(bytes), w), end)
              THEN Err(InsufficientBytes)
              ELSE IF LtW(end, size_consumed)
              THEN Panic
              ELSE Ok(Script_new(Slice(bytes, r.consumed, ToNat(end))),
                      ToNat(script_len))

Script_from_bytes(bytes, b) ==
    IF bytes = <<>> THEN Err(InsufficientBytes)
    ELSE LET r == CompactSize_from_bytes(bytes) IN
         \* the `?` operator
         IF r.tag # "Ok" THEN r
         ELSE LET w == b.usize_limbs
                  size_consumed == FromNat(r.consumed, w)
                  \* compact_size.value as usize
                  script_len == CastTo(r.value.value, w)
                  \* size_consumed + script_len
                  end == WrappingAdd(size_consumed, script_len) IN
              IF AddOverflows(size_consumed, script_len) /\ b.overflow_checks
              THEN Panic
              ELSE IF LtW(FromNat(Len(bytes), w), end)
              THEN Err(InsufficientBytes)
              \* &bytes[size_consumed..end] with end < size_consumed
              ELSE IF LtW(end, size_consumed)
              THEN Panic
              ELSE Ok(Script_new(Slice(bytes, r.consumed, ToNat(end))),
                      ToNat(end))

(***************************************************************************)
(* TransactionInput                                                        *)
(***************************************************************************)
TransactionInput_new(previous_output, script_sig, sequence) ==
    [previous_output |-> previous_output, script_sig |-> script_sig,
     sequence |-> sequence]

TransactionInput_to_bytes(self) ==
    OutPoint_to_bytes(self.previous_output)
        \o Script_to_bytes(self.script_sig)
        \o to_le_bytes(self.sequence)

TransactionInput_from_bytes(bytes, b) ==
    LET bytes_len == Len(bytes) IN
    IF bytes_len < 36 THEN Err(InsufficientBytes)
    ELSE LET o == OutPoint_from_bytes(SliceFrom(bytes, 0)) IN
         \* .unwrap()
         IF o.tag # "Ok" THEN Panic
         ELSE LET offset == o.consumed IN
              IF o.consumed # 36 THEN Err(InvalidFormat)
              ELSE IF bytes_len < offset THEN Err(InsufficientBytes)
              ELSE LET s == Script_from_bytes(SliceFrom(bytes, offset), b) IN
                   \* .unwrap()
                   IF s.tag # "Ok" THEN Panic
                   ELSE LET offset2 == offset + s.consumed IN
                        IF bytes_len < offset2 + 4
                        THEN Err(InsufficientBytes)
                        ELSE Ok([previous_output |-> o.value,
                                 script_sig |-> s.value,
                                 sequence |-> from_le_bytes(
                                     Slice(bytes, offset2, offset2 + 4))],
                                offset2 + 4)

(***************************************************************************)
(* BitcoinTransaction                                                      *)
(***************************************************************************)
BitcoinTransaction_new(version, inputs, lock_time) ==
    [version |-> version, inputs |-> inputs, lock_time |-> lock_time]

RECURSIVE SerializeInputs(_)
\* the loop `for input in &self.inputs`
SerializeInputs(inputs) ==
    IF inputs = <<>> THEN <<>>
    ELSE TransactionInput_to_bytes(Head(inputs)) \o SerializeInputs(Tail(inputs))

BitcoinTransaction_to_bytes(self) ==
    to_le_bytes(self.version)
        \o CompactSize_to_bytes(CompactSize_new(FromNat(Len(self.inputs), 4)))
        \o SerializeInputs(self.inputs)
        \o to_le_bytes(self.lock_time)

RECURSIVE ParseInputs(_, _, _, _, _)
\* the loop `for _ in 0..input_count`, entered with Len(inputs) rounds done:
\* Ok(inputs, offset) when the loop ends, else what the loop body returns
ParseInputs(bytes, offset, inputs, input_count, b) ==
    IF ~LtW(FromNat(Len(inputs), b.usize_limbs), input_count)
    THEN Ok(inputs, offset)
    ELSE IF Len(bytes) < offset THEN Err(InsufficientBytes)
    ELSE LET r == TransactionInput_from_bytes(SliceFrom(bytes, offset), b) IN
         \* the `?` operator
         IF r.tag # "Ok" THEN r
         ELSE ParseInputs(bytes, offset + r.consumed,
                          Append(inputs, r.value), input_count, b)

\* a decoder that forgets the lock_time bytes in the count it returns
BitcoinTransaction_from_bytes_short(bytes, b) ==
    LET bytes_len == Len(bytes) IN
    IF bytes_len < 4 THEN Err(InsufficientBytes)
    ELSE LET version == from_le_bytes(Slice(bytes, 0, 4))
             c == CompactSize_from_bytes(SliceFrom(bytes, 4)) IN
         IF c.tag # "Ok" THEN c
         ELSE LET input_count == CastTo(c.value.value, b.usize_limbs)
                  loop == ParseInputs(bytes, 4 + c.consumed, <<>>,
                                      input_count, b) IN
              IF loop.tag # "Ok" THEN loop
              ELSE LET offset == loop.consumed IN
                   IF bytes_len < offset + 4 THEN Err(InsufficientBytes)
                   ELSE Ok([version |-> version,
                            inputs |-> loop.value,
                            lock_time |-> from_le_bytes(
                                Slice(bytes, offset, offset + 4))],
                           offset)

BitcoinTransaction_from_bytes(bytes, b) ==
    LET bytes_len == Len(bytes) IN
    IF bytes_len < 4 THEN Err(InsufficientBytes)
    ELSE LET version == from_le_bytes(Slice(bytes, 0, 4))
             c == CompactSize_from_bytes(SliceFrom(bytes, 4)) IN
         \* the `?` operator
         IF c.tag # "Ok" THEN c
         ELSE LET \* compact_size.value as usize
                  input_count == CastTo(c.value.value, b.usize_limbs)
                  loop == ParseInputs(bytes, 4 + c.consumed, <<>>,
                                      input_count, b) IN
              IF loop.tag # "Ok" THEN loop
              ELSE LET offset == loop.consumed IN
                   IF bytes_len < offset + 4 THEN Err(InsufficientBytes)
                   ELSE Ok([version |-> version,
                            inputs |-> loop.value,
                            lock_time |-> from_le_bytes(
                                Slice(bytes, offset, offset + 4))],
                           offset + 4)

(***************************************************************************)
(* The driver: values it builds and buffers it hands to the decoders.      *)
(***************************************************************************)
Kinds == {"CompactSize", "OutPoint", "Script", "TransactionInput",
          "BitcoinTransaction"}

ToBytesOf(kind, v) ==
    CASE kind = "CompactSize" -> CompactSize_to_bytes(v)
      [] kind = "OutPoint" -> OutPoint_to_bytes(v)
      [] kind = "Script" -> Script_to_bytes(v)
      [] kind = "TransactionInput" -> TransactionInput_to_bytes(v)
      [] kind = "BitcoinTransaction" -> BitcoinTransaction_to_bytes(v)

FromBytesOf(kind, bytes, b) ==
    CASE kind = "CompactSize" -> CompactSize_from_bytes(bytes)
      [] kind = "OutPoint" -> OutPoint_from_bytes(bytes)
      [] kind = "Script" -> Script_from_bytes(bytes, b)
      [] kind = "TransactionInput" -> TransactionInput_from_bytes(bytes, b)
      [] kind = "BitcoinTransaction" -> BitcoinTransaction_from_bytes(bytes, b)

\* u64 values on both sides of every range boundary, values whose bytes all
\* differ, and values that make `prefix size + n` wrap a 32- or 64-bit usize
U64Values ==
    { U64(0, 0, 0, 0), U64(1, 0, 0, 0), U64(2, 0, 0, 0), U64(252, 0, 0, 0),
      U64(253, 0, 0, 0), U64(4660, 0, 0, 0), U64(65535, 0, 0, 0),
      U64(0, 1, 0, 0), U64(22136, 4660, 0, 0), U64(65530, 65535, 0, 0),
      U64(65535, 65535, 0, 0), U64(0, 0, 1, 0), U64(1, 0, 1, 0),
      U64(1800, 1286, 772, 258), U64(65526, 65535, 65535, 65535),
      U64(65527, 65535, 65535, 65535), U64(65535, 65535, 65535, 65535) }

U32Values == { <<0, 0>>, <<1, 0>>, <<22136, 4660>>, <<65535, 65535>> }

TxidZero == [i \in 1..32 |-> 0]
TxidCount == [i \in 1..32 |-> i]
TxidHigh == [i \in 1..32 |-> 255 - i]

LongScript == [i \in 1..LongScriptLen |-> i % 256]

CompactSizeValues == { CompactSize_new(n) : n \in U64Values }

OutPointValues ==
    { OutPoint_new(t, v) : t \in {TxidZero, TxidCount, TxidHigh},
                           v \in U32Values }

ScriptValues ==
    { Script_new(s) : s \in {<<>>, <<0>>, <<1, 2, 3>>, <<255, 255>>,
                             LongScript} }

InputA == TransactionInput_new(OutPoint_new(TxidCount, <<1, 0>>),
                               Script_new(<<>>), <<65535, 65535>>)
InputB == TransactionInput_new(OutPoint_new(TxidHigh, <<22136, 4660>>),
                               Script_new(<<1, 2, 3>>), <<0, 0>>)
InputC == TransactionInput_new(OutPoint_new(TxidZero, <<0, 0>>),
                               Script_new(<<255, 255>>), <<22136, 4660>>)
InputLong == TransactionInput_new(OutPoint_new(TxidCount, <<65535, 65535>>),
                                  Script_new(LongScript), <<1, 0>>)

TransactionInputValues == {InputA, InputB, InputC, InputLong}

RECURSIVE ListsUpTo(_, _)
\* the sequences over `pool` of length at most n
ListsUpTo(pool, n) ==
    IF n = 0 THEN {<<>>}
    ELSE LET shorter == ListsUpTo(pool, n - 1) IN
         shorter \cup { Append(l, x) : l \in shorter, x \in pool }

BitcoinTransactionValues ==
    { BitcoinTransaction_new(v, ins, lt) :
        v \in {<<1, 0>>}, ins \in ListsUpTo({InputA, InputB}, MaxInputs),
        lt \in {<<0, 0>>} }
    \cup { BitcoinTransaction_new(<<2, 0>>, <<InputLong>>, <<65535, 65535>>),
           BitcoinTransaction_new(<<22136, 4660>>, <<InputC, InputA>>,
                                  <<1, 0>>) }

ValuesOf(kind) ==
    CASE kind = "CompactSize" -> CompactSizeValues
      [] kind = "OutPoint" -> OutPointValues
      [] kind = "Script" -> ScriptValues
      [] kind = "TransactionInput" -> TransactionInputValues
      [] kind = "BitcoinTransaction" -> BitcoinTransactionValues

\* hand-written streams: the fixed fields of the structure followed by a
\* length or count prefix that declares n
RawHeader(kind) ==
    CASE kind = "Script" -> <<>>
      [] kind = "TransactionInput" ->
            OutPoint_to_bytes(OutPoint_new(TxidCount, <<1, 0>>))
      [] kind = "BitcoinTransaction" -> to_le_bytes(<<1, 0>>)

RawBufs(kind) ==
    IF kind \in {"Script", "TransactionInput", "BitcoinTransaction"}
    THEN { RawHeader(kind) \o CompactSize_to_bytes(CompactSize_new(n)) :
             n \in U64Values }
    ELSE {}

NoVal == [none |-> TRUE]

\* bytes the driver appends and overwrites with
ExtraBytes == {0, 255}
PokeBytes == {0, 2, 253, 255}

Init ==
    /\ S \in Kinds
    /\ \/ /\ val \in ValuesOf(S)
          /\ buf = <<>>
          /\ origin = "none"
          /\ pc = "value"
       \/ /\ val = NoVal
          /\ buf \in RawBufs(S)
          /\ origin = "raw"
          /\ pc = "bytes"
    /\ extra = 0
    /\ res = NoRes
    /\ build = NoVal
    /\ text = <<>>

\* v.to_bytes()
ToBytes ==
    /\ pc = "value"
    /\ buf' = ToBytesOf(S, val)
    /\ origin' = "encoded"
    /\ pc' = "bytes"
    /\ UNCHANGED <<S, val, extra, res, build, text>>

\* the caller keeps only the first k bytes of an encoding
Truncate(k) ==
    /\ pc = "bytes"
    /\ origin = "encoded"
    /\ k < Len(buf)
    /\ buf' = SubSeq(buf, 1, k)
    /\ origin' = "truncated"
    /\ UNCHANGED <<S, val, extra, res, pc, build, text>>

\* the caller's slice goes on after the encoding
AppendByte(x) ==
    /\ pc = "bytes"
    /\ origin \in {"encoded", "extended", "raw"}
    /\ extra < MaxExtra
    /\ buf' = Append(buf, x)
    /\ extra' = extra + 1
    /\ origin' = IF origin = "encoded" THEN "extended" ELSE origin
    /\ UNCHANGED <<S, val, res, pc, build, text>>

\* one byte of the stream is another one
Poke(i, x) ==
    /\ pc = "bytes"
    /\ origin \in {"encoded", "raw"}
    /\ extra = 0
    /\ i \in 1..Len(buf)
    /\ x # buf[i]
    /\ buf' = [buf EXCEPT ![i] = x]
    /\ origin' = "poked"
    /\ UNCHANGED <<S, val, extra, res, pc, build, text>>

\* S::from_bytes(&buf), in any build of the crate
FromBytes(b) ==
    /\ pc = "bytes"
    /\ build' = b
    /\ res' = FromBytesOf(S, buf, b)
    /\ pc' = "decoded"
    /\ UNCHANGED <<S, val, buf, origin, extra, text>>

Next ==
    \/ ToBytes
    \/ \E k \in 0..Len(buf) : Truncate(k)
    \/ \E x \in ExtraBytes : AppendByte(x)
    \/ \E i \in 1..Len(buf), x \in PokeBytes : Poke(i, x)
    \/ \E b \in Builds : FromBytes(b)

Spec == Init /\ [][Next]_vars

(***************************************************************************)
(* Txid as text: impl Serialize / Deserialize for Txid.                    *)
(* A text is a sequence of one-character strings.                          *)
(***************************************************************************)
HexDigits == <<"0", "1", "2", "3", "4", "5", "6", "7",
               "8", "9", "a", "b", "c", "d", "e", "f">>
UpperHexDigits == <<"A", "B", "C", "D", "E", "F">>

RECURSIVE encode(_)
\* hex::encode: two lowercase digits per byte, high nibble first
encode(bytes) ==
    IF bytes = <<>> THEN <<>>
    ELSE <<HexDigits[(bytes[1] \div 16) + 1], HexDigits[(bytes[1] % 16) + 1]>>
             \o encode(Tail(bytes))

\* the value of a hex digit of either case, -1 for any other character
HexVal(c) ==
    IF \E i \in 1..16 : HexDigits[i] = c
    THEN (CHOOSE i \in 1..16 : HexDigits[i] = c) - 1
    ELSE IF \E i \in 1..6 : UpperHexDigits[i] = c
    THEN (CHOOSE i \in 1..6 : UpperHexDigits[i] = c) + 9
    ELSE -1

RECURSIVE DecodePairs(_)
DecodePairs(str) ==
    IF str = <<>> THEN <<>>
    ELSE <<16 * HexVal(str[1]) + HexVal(str[2])>>
             \o DecodePairs(SubSeq(str, 3, Len(str)))

\* hex::decode: Err(OddLength), Err(InvalidHexCharacter) or the bytes
decode(str) ==
    IF Len(str) % 2 # 0 THEN Err("OddLength")
    ELSE IF \E i \in 1..Len(str) : HexVal(str[i]) = -1
    THEN Err("InvalidHexCharacter")
    ELSE [tag |-> "Ok", value |-> DecodePairs(str)]

\* Txid::serialize with a serializer that writes the string it is given
Txid_serialize(self) == encode(self)

\* the message of the serde error Error::custom builds
SerdeCustom == "Invalid hex string. Could not decode"

\* Txid::deserialize with a deserializer that holds the string `str`
Txid_deserialize(str) ==
    LET \* deserialize_string(StringVisitor).unwrap(): visit_str gives the string
        hex_str == str
        raw_bytes == decode(hex_str) IN
    \* decode(hex_str).unwrap()
    IF raw_bytes.tag # "Ok" THEN Panic
    ELSE IF Len(raw_bytes.value) # 32 THEN Err(SerdeCustom)
    ELSE [tag |-> "Ok", value |-> Txid(raw_bytes.value)]

TxidValues == {TxidZero, TxidCount, TxidHigh}

\* characters the driver writes over a text
PokeChars == {"0", "F", "g"}

InitTxid ==
    /\ S = "Txid"
    /\ val \in TxidValues
    /\ pc = "value"
    /\ text = <<>>
    /\ buf = <<>>
    /\ origin = "none"
    /\ extra = 0
    /\ res = NoRes
    /\ build = NoVal

Serialize ==
    /\ pc = "value"
    /\ text' = Txid_serialize(val)
    /\ origin' = "serialized"
    /\ pc' = "text"
    /\ UNCHANGED <<S, val, buf, extra, res, build>>

\* only the first k characters of the text arrive
DropChars(k) ==
    /\ pc = "text"
    /\ origin = "serialized"
    /\ k < Len(text)
    /\ text' = SubSeq(text, 1, k)
    /\ origin' = "shortened"
    /\ UNCHANGED <<S, val, buf, extra, res, pc, build>>

\* one character of the text is another one
SetChar(i, c) ==
    /\ pc = "text"
    /\ origin = "serialized"
    /\ c # text[i]
    /\ text' = [text EXCEPT ![i] = c]
    /\ origin' = "rewritten"
    /\ UNCHANGED <<S, val, buf, extra, res, pc, build>>

Deserialize ==
    /\ pc = "text"
    /\ res' = Txid_deserialize(text)
    /\ pc' = "deserialized"
    /\ UNCHANGED <<S, val, buf, origin, extra, text, build>>

NextTxid ==
    \/ Serialize
    \/ \E k \in 0..Len(text) : DropChars(k)
    \/ \E i \in 1..Len(text), c \in PokeChars : SetChar(i, c)
    \/ Deserialize

SpecTxid == InitTxid /\ [][NextTxid]_vars

(***************************************************************************)
(* Properties.                                                             *)
(***************************************************************************)

\* C1: round trip.  For every value v of the five structures, from_bytes on
\* to_bytes(v) succeeds and returns v and the length of to_bytes(v).
C1_RoundTrip ==
    (pc = "decoded" /\ origin = "encoded") => res = Ok(val, Len(buf))

C1_Witness ==
    /\ pc = "decoded"
    /\ origin = "encoded"
    /\ S = "BitcoinTransaction"
    /\ Len(val.inputs) = 2
    /\ val.inputs[1].script_sig.bytes # <<>>
    /\ res.tag = "Ok"

\* C2: CompactSize::to_bytes is canonical: one byte for 0..252, 0xFD and two
\* little-endian bytes for 253..65535, 0xFE and four for 65536..2^32-1, 0xFF
\* and eight from 2^32 on.  (v[i] is the i-th 16-bit digit of the value.)
C2_Canonical ==
    (pc = "bytes" /\ origin = "encoded" /\ S = "CompactSize") =>
        LET v == val.value
            lo(x) == x % 256
            hi(x) == x \div 256 IN
        IF v[4] # 0 \/ v[3] # 0
        THEN buf = <<255, lo(v[1]), hi(v[1]), lo(v[2]), hi(v[2]),
                     lo(v[3]), hi(v[3]), lo(v[4]), hi(v[4])>>
        ELSE IF v[2] # 0
        THEN buf = <<254, lo(v[1]), hi(v[1]), lo(v[2]), hi(v[2])>>
        ELSE IF v[1] >= 253
        THEN buf = <<253, lo(v[1]), hi(v[1])>>
        ELSE buf = <<v[1]>>

C2_Witness ==
    /\ pc = "bytes"
    /\ origin = "encoded"
    /\ S = "CompactSize"
    /\ val.value = U64(0, 0, 1, 0)
    /\ buf = <<255, 0, 0, 0, 0, 1, 0, 0, 0>>

\* C3 (as claimed): from_bytes on any strict prefix of to_bytes(v) returns
\* Err(InsufficientBytes), for each of the five structures.
C3_Truncation ==
    (pc = "decoded" /\ origin = "truncated") => res = Err(InsufficientBytes)

\* C4 (as claimed): every decoder returns Ok or Err and never aborts in
\* another way; when TransactionInput::from_bytes has at least 36 bytes and
\* the nested Script::from_bytes on the bytes after offset 36 fails,
\* TransactionInput::from_bytes returns that same error.
C4_FirstFailureWins ==
    pc = "decoded" =>
        /\ res.tag \in {"Ok", "Err"}
        /\ (S = "TransactionInput" /\ Len(buf) >= 36
              /\ Script_from_bytes(SliceFrom(buf, 36), build).tag = "Err")
           => res = Script_from_bytes(SliceFrom(buf, 36), build)

\* C5: CompactSize::from_bytes is lenient.  Empty input: InsufficientBytes.
\* Otherwise the first byte d selects a payload of 0, 2, 4 or 8 bytes; a
\* shorter input: InsufficientBytes; any input at least that long: Ok with
\* the little-endian payload as value and 1 + payload size consumed,
\* whatever follows and whether or not the encoding is minimal.
C5_LenientDecode ==
    (pc = "decoded" /\ S = "CompactSize") =>
        IF buf = <<>> THEN res = Err(InsufficientBytes)
        ELSE LET d == buf[1]
                 p == IF d <= 252 THEN 0 ELSE IF d = 253 THEN 2
                      ELSE IF d = 254 THEN 4 ELSE 8 IN
             IF Len(buf) < 1 + p THEN res = Err(InsufficientBytes)
             ELSE /\ res.tag = "Ok"
                  /\ res.consumed = 1 + p
                  /\ res.value.value =
                        IF p = 0 THEN <<d, 0, 0, 0>>
                        ELSE [i \in 1..4 |->
                                IF 2 * i <= p
                                THEN buf[2 * i] + 256 * buf[2 * i + 1]
                                ELSE 0]

C5_Witness ==
    /\ pc = "decoded"
    /\ S = "CompactSize"
    /\ Len(buf) > 3
    /\ buf[1] = 253
    /\ res.tag = "Ok"
    /\ res.consumed = 3
    /\ LeW(res.value.value, N252)

\* C6 (as claimed): Script::from_bytes, for every declared length n of the
\* prefix: fewer than n bytes after the prefix give Err(InsufficientBytes);
\* otherwise the result is the n bytes after the prefix and
\* consumed = prefix size + n.
C6_DeclaredLength ==
    (pc = "decoded" /\ S = "Script" /\ CompactSize_from_bytes(buf).tag = "Ok")
    =>  LET p == CompactSize_from_bytes(buf)
            n == p.value.value
            follow == Len(buf) - p.consumed IN
        IF LtW(FromNat(follow, 4), n) THEN res = Err(InsufficientBytes)
        ELSE res = Ok(Script_new(SubSeq(buf, p.consumed + 1,
                                        p.consumed + ToNat(n))),
                      p.consumed + ToNat(n))

RECURSIVE ChainEnd(_, _, _, _)
\* the offset after k inputs decoded one after the other from `offset`,
\* -1 when one of them does not decode
ChainEnd(bytes, offset, k, b) ==
    IF k = 0 THEN offset
    ELSE LET r == TransactionInput_from_bytes(SliceFrom(bytes, offset), b) IN
         IF r.tag # "Ok" THEN -1
         ELSE ChainEnd(bytes, offset + r.consumed, k - 1, b)

\* C7 (as claimed): BitcoinTransaction::from_bytes decodes exactly the
\* declared number of inputs, each from where the previous one ended, and
\* consumes 4 + prefix size + the inputs' sizes + 4; a stream that ends
\* before the declared inputs and the lock_time are read (here: a strict
\* prefix of an encoding that still holds the count) gives
\* Err(InsufficientBytes).
C7_DeclaredCount ==
    (pc = "decoded" /\ S = "BitcoinTransaction") =>
        /\ res.tag = "Ok" =>
              LET c == CompactSize_from_bytes(SliceFrom(buf, 4)) IN
              /\ FromNat(Len(res.value.inputs), 4) = c.value.value
              /\ res.consumed =
                    ChainEnd(buf, 4 + c.consumed, Len(res.value.inputs),
                             build) + 4
        /\ (origin = "truncated" /\ Len(buf) >= 5)
              => res = Err(InsufficientBytes)

\* C8 (amended): for a transaction with exactly 2 inputs the count field of
\* the encoding decodes to 2 and from_bytes consumes the two inputs' encoded
\* sizes plus 9 bytes: version (4), the count prefix (1) and lock_time (4).
C8_TwoInputs ==
    (pc = "decoded" /\ origin = "encoded" /\ S = "BitcoinTransaction"
       /\ Len(val.inputs) = 2)
    =>  /\ CompactSize_from_bytes(SliceFrom(buf, 4)).tag = "Ok"
        /\ CompactSize_from_bytes(SliceFrom(buf, 4)).value.value
              = U64(2, 0, 0, 0)
        /\ res.tag = "Ok"
        /\ res.consumed = Len(TransactionInput_to_bytes(val.inputs[1]))
                            + Len(TransactionInput_to_bytes(val.inputs[2]))
                            + 9

\* C8 (as claimed): ... and from_bytes consumes the two inputs' encoded sizes
\* plus the 8 fixed bytes.
C8_TwoInputs_Original ==
    (pc = "decoded" /\ origin = "encoded" /\ S = "BitcoinTransaction"
       /\ Len(val.inputs) = 2)
    =>  /\ CompactSize_from_bytes(SliceFrom(buf, 4)).value.value
              = U64(2, 0, 0, 0)
        /\ res.tag = "Ok"
        /\ res.consumed = Len(TransactionInput_to_bytes(val.inputs[1]))
                            + Len(TransactionInput_to_bytes(val.inputs[2]))
                            + 8

C8_Witness ==
    /\ pc = "decoded"
    /\ origin = "encoded"
    /\ S = "BitcoinTransaction"
    /\ Len(val.inputs) = 2
    /\ val.inputs[1] # val.inputs[2]
    /\ res.tag = "Ok"
    /\ res.consumed = Len(buf)

\* C9 (as claimed): serializing a Txid gives its 64 lowercase hex characters
\* and deserializing them gives the Txid back; a text whose hex-decoded
\* length is not 32 is refused with an error; no text makes the
\* deserializer abort.
C9_TxidText ==
    /\ (pc = "text" /\ origin = "serialized")
          => /\ Len(text) = 64
             /\ \A i \in 1..64 : \E j \in 1..16 : text[i] = HexDigits[j]
    /\ pc = "deserialized"
          => /\ res.tag # "Panic"
             /\ origin = "serialized" => res = [tag |-> "Ok", value |-> val]
             /\ Len(text) # 64 => res.tag = "Err"

\* tails put after the consumed bytes
Tails == {<<>>, <<0>>, <<255>>, <<253, 1>>, <<255, 255, 255, 255, 255>>}

\* C10: a successful decode consumes at most the slice and depends only on
\* the bytes it consumed: from_bytes(b) = Ok(v, c) implies c <= len(b) and
\* from_bytes(b[0..c] ++ t) = Ok(v, c) for every t.
C10_PrefixDeterminism ==
    (pc = "decoded" /\ res.tag = "Ok") =>
        /\ res.consumed <= Len(buf)
        /\ \A t \in Tails :
              FromBytesOf(S, SubSeq(buf, 1, res.consumed) \o t, build) = res

C10_Witness ==
    /\ pc = "decoded"
    /\ res.tag = "Ok"
    /\ S = "TransactionInput"
    /\ origin = "poked"
    /\ res.consumed < Len(buf)

====
